---- MODULE Spec2Model ----
(***************************************************************************)
(* Model of the Tauri gRPC client commands of my-tauri-app                 *)
(* (src-tauri/src/lib.rs, src-tauri/src/config.rs): the chunked upload     *)
(* pipeline (producer task, bounded mpsc channel, client-streaming RPC)    *)
(* of upload_video and upload_video_from_path, and the chat stream         *)
(* collector collect_chat_stream used by process_query.                    *)
(*                                                                         *)
(* One behaviour is one command invocation.  The main task (the command's  *)
(* future) and the spawned producer task interleave at their await points. *)
(***************************************************************************)
EXTENDS Integers, Sequences, FiniteSets, TLC

\* ------------------------------------------------------------------ bounds
\* Longest payload (bytes of video_data, or of the file that is read).
MaxLen == 10
\* Largest chunk size given by a one-digit VIDEO_CHUNK_SIZE setting.
MaxChunk == 3
\* Cap of the chunks one producer pushes: only reached when chunk_size = 0,
\* where the upload_video loop never advances offset.
MaxIdx == 12
\* Longest sequence of items the chat stream delivers before it ends.
MaxItems == 3

\* ------------------------------------------------------- program constants
\* tokio::sync::mpsc::channel::<VideoChunk>(8)
QueueCap == 8
\* unwrap_or(512 * 1024)
DefaultChunkSize == 512 * 1024
\* i32 range of chunk_index
I32Max == 2147483647
I32Min == (-2147483647) - 1

\* An environment variable: not set, or set to a value.
Unset == [set |-> FALSE, value |-> <<>>]
Set(v) == [set |-> TRUE, value |-> v]

Min(a, b) == IF a < b THEN a ELSE b

\* --------------------------------------------------------------- config.rs
Digits == {"0", "1", "2", "3", "4", "5", "6", "7", "8", "9"}

DigitVal(c) ==
    CASE c = "0" -> 0 [] c = "1" -> 1 [] c = "2" -> 2 [] c = "3" -> 3
      [] c = "4" -> 4 [] c = "5" -> 5 [] c = "6" -> 6 [] c = "7" -> 7
      [] c = "8" -> 8 [] c = "9" -> 9

RECURSIVE DigitsValue(_)
DigitsValue(s) ==
    IF s = <<>> THEN 0
    ELSE 10 * DigitsValue(SubSeq(s, 1, Len(s) - 1)) + DigitVal(s[Len(s)])

\* str::parse::<usize>: an optional leading "+", then one or more decimal
\* digits; anything else (empty, a sign alone, "-", other characters) is an
\* error.  A string is a sequence of one-character strings.  Returns the
\* set holding the parsed value, or the empty set for Err.
ParseUsize(s) ==
    LET body == IF s # <<>> /\ s[1] = "+" THEN Tail(s) ELSE s
    IN  IF body # <<>> /\ \A i \in 1..Len(body) : body[i] \in Digits
        THEN {DigitsValue(body)}
        ELSE {}

\* Mutant: the default is 512 bytes, not 512 KiB.
video_chunk_size_small_default(env) ==
    IF ~env.set THEN 512
    ELSE IF ParseUsize(env.value) = {} THEN 512
    ELSE CHOOSE v \in ParseUsize(env.value) : TRUE

\* GrpcConfig::video_chunk_size: env::var(..).ok().and_then(parse).unwrap_or
video_chunk_size(env) ==
    IF ~env.set THEN DefaultChunkSize
    ELSE IF ParseUsize(env.value) = {} THEN DefaultChunkSize
    ELSE CHOOSE v \in ParseUsize(env.value) : TRUE

\* GrpcConfig::server_url
server_url(env) ==
    IF ~env.set THEN "http://127.0.0.1:50051" ELSE env.value

\* Values of the VIDEO_CHUNK_SIZE setting a command may find.
DigitChar(d) ==
    CASE d = 0 -> "0" [] d = 1 -> "1" [] d = 2 -> "2" [] d = 3 -> "3"
      [] d = 4 -> "4" [] d = 5 -> "5" [] d = 6 -> "6" [] d = 7 -> "7"
      [] d = 8 -> "8" [] d = 9 -> "9"

ChunkSizeEnvs ==
    {Unset, Set(<<>>), Set(<<"x">>), Set(<<"-", "1">>), Set(<<"+", "2">>)}
        \cup {Set(<<DigitChar(d)>>) : d \in 0..MaxChunk}

\* Values of the GRPC_SERVER_URL setting.
ServerUrlEnvs ==
    {[set |-> FALSE, value |-> ""], Set("http://backend-server:50051")}

\* ------------------------------------------------------------------ inputs
Ramp(n) == [i \in 1..n |-> i % 256]
Payloads == {Ramp(n) : n \in 0..MaxLen} \cup {[i \in 1..n |-> 0] : n \in 2..3}

FileNames == {"clip.mp4"}
\* A path is its sequence of components.
FilePaths == {<<"videos", "clip.mp4">>, <<"videos", "..">>}

\* Commands that make one unary call and return its response.
UnaryCommands ==
    {"register_local_video", "get_last_session", "get_chat_history",
     "resume_session", "clear_chat_history", "get_processing_status"}

Commands ==
    {"upload_video", "upload_video_from_path", "process_query",
     "check_backend_ready"} \cup UnaryCommands

\* Path::file_name().and_then(to_str).unwrap_or("video.mp4"): the last
\* component, unless the path is empty or ends in "..".
PathFileName(path) ==
    IF path = <<>> \/ path[Len(path)] = ".." THEN "video.mp4"
    ELSE path[Len(path)]

\* ------------------------------------------------------------------- state
VARIABLES
    cmd,          \* the command invoked
    filename,     \* upload_video: argument; upload_video_from_path: derived
    file_path,    \* upload_video_from_path: argument
    video_data,   \* upload_video: argument; file mode: the file's bytes
    chunk_size,   \* let chunk_size = GrpcConfig::video_chunk_size()
    pc,           \* main task: "start","connect","rpc","collect","returned"
    producer,     \* spawned task: "unspawned","loop","send","done","panicked"
    idx,          \* producer: let mut idx: i32
    offset,       \* producer: let mut offset (file mode: file position)
    chunk,        \* producer: <<c>> while c is held in tx.send(c).await
    queue,        \* the mpsc channel's buffer
    tx_open,      \* the Sender has not been dropped
    rx_open,      \* the Receiver has not been dropped
    pushed,       \* history: chunks whose send returned Ok, in order
    sent,         \* history: chunks the request stream took from the queue
    end_of_input, \* the request stream has seen closed-and-empty
    read_failed,  \* history: file.read returned Err
    delivered,    \* history: items the chat stream has yielded
    stream_end,   \* history: "open", "clean" (Ok(None)) or "error" (Err)
    responses,    \* collect_chat_stream: let mut responses
    connects,     \* history: connection attempts made
    rpcs,         \* history: RPC calls started
    failed,       \* history: the failed step: "", "open", "connect", "rpc",
                  \* "timeout"
    response,     \* history: <<r>> once the RPC call delivered response r
    endpoint,     \* history: the address of a failed connection attempt
    cfg_in,       \* GrpcConfig checked alone: the environment it reads
    cfg_out,      \* GrpcConfig checked alone: <<>>, then what it returned
    result        \* the command's return value

inputVars == <<cmd, filename, file_path, video_data>>
prodVars == <<producer, idx, offset, chunk, read_failed>>
chanVars == <<queue, tx_open, rx_open, pushed, sent, end_of_input>>
chatVars == <<delivered, stream_end, responses>>
mainVars == <<chunk_size, pc, connects, rpcs, failed, response, result>>
cfgVars == <<cfg_in, cfg_out>>
vars == <<inputVars, prodVars, chanVars, chatVars, mainVars, endpoint, cfgVars>>

NoResult == [tag |-> "None"]
Ok(v) == [tag |-> "Ok", value |-> v]
Err(m) == [tag |-> "Err", msg |-> m]

Init ==
    /\ cmd \in Commands
    /\ \/ /\ cmd = "upload_video"
          /\ filename \in FileNames
          /\ file_path = <<>>
          /\ video_data \in Payloads
       \/ /\ cmd = "upload_video_from_path"
          /\ filename = ""
          /\ file_path \in FilePaths
          /\ video_data \in Payloads
       \/ /\ cmd \notin {"upload_video", "upload_video_from_path"}
          /\ filename = ""
          /\ file_path = <<>>
          /\ video_data = <<>>
    /\ chunk_size = 0
    /\ pc = "start"
    /\ producer = "unspawned"
    /\ idx = 0
    /\ offset = 0
    /\ chunk = <<>>
    /\ queue = <<>>
    /\ tx_open = FALSE
    /\ rx_open = FALSE
    /\ pushed = <<>>
    /\ sent = <<>>
    /\ end_of_input = FALSE
    /\ read_failed = FALSE
    /\ delivered = <<>>
    /\ stream_end = "open"
    /\ responses = <<>>
    /\ connects = 0
    /\ rpcs = 0
    /\ failed = ""
    /\ response = <<>>
    /\ endpoint = ""
    /\ cfg_in = [VIDEO_CHUNK_SIZE |-> Unset, GRPC_SERVER_URL |-> Unset]
    /\ cfg_out = <<>>
    /\ result = NoResult

\* ------------------------------------------------------------ lib.rs: data
VideoChunk(d, f, i) == [data |-> d, filename |-> f, chunk_index |-> i]

\* `idx as i32` on a usize: every value up to i32::MAX is kept; above it the
\* low 32 bits are reinterpreted as signed.
AsI32(n) == IF n <= I32Max THEN n ELSE I32Min + ((n - I32Max) - 1)

\* Mutant: chunks_exact, which leaves a short remainder out.
RECURSIVE ChunksExact(_, _)
ChunksExact(data, size) ==
    IF Len(data) < size THEN <<>>
    ELSE <<SubSeq(data, 1, size)>>
            \o ChunksExact(SubSeq(data, size + 1, Len(data)), size)

\* slice::chunks(size) for size > 0: consecutive slices of `size` elements,
\* the last one shorter when the length is not a multiple.
RECURSIVE Chunks(_, _)
Chunks(data, size) ==
    IF data = <<>> THEN <<>>
    ELSE LET n == Min(size, Len(data))
         IN  <<SubSeq(data, 1, n)>>
                \o Chunks(SubSeq(data, n + 1, Len(data)), size)

\* build_video_chunks: chunks(chunk_size).enumerate().map(..).collect();
\* chunks panics when chunk_size is 0.
build_video_chunks(fname, data, size) ==
    IF size = 0 THEN [panic |-> TRUE, chunks |-> <<>>]
    ELSE LET cs == Chunks(data, size)
         IN  [panic |-> FALSE,
              chunks |-> [i \in 1..Len(cs) |->
                            VideoChunk(cs[i], fname, AsI32(i - 1))]]

\* idx += 1 on an i32.  At i32::MAX a build with overflow checks panics and
\* a build without them wraps to i32::MIN; both are outcomes of the code.
\* Mutant: the increment is forgotten.
IdxIncrementMissing(i) == {[panic |-> FALSE, idx |-> i]}
IdxIncrement(i) ==
    IF i < I32Max THEN {[panic |-> FALSE, idx |-> i + 1]}
    ELSE {[panic |-> TRUE, idx |-> i], [panic |-> FALSE, idx |-> I32Min]}

\* serde_json::to_value of a prost struct deriving Serialize: a JSON object
\* with one member per field.  Its fields are strings, booleans and i32,
\* for which serialization has no failing case, so map_err never applies.
JsonObject(rec) == [json |-> "object", members |-> rec]
JsonArray(seq) ==
    [json |-> "array", items |-> [i \in 1..Len(seq) |-> JsonObject(seq[i])]]

TransportErrors == {"transport error", "deadline exceeded"}

\* The aggregate responses the remote side may give to an upload.
UploadResponses ==
    { [file_id |-> "f1", success |-> TRUE, message |-> "stored"],
      [file_id |-> "", success |-> FALSE, message |-> "rejected"] }

IsUpload == cmd \in {"upload_video", "upload_video_from_path"}

\* Dropping the Receiver closes the channel and frees what it buffers.
DropReceiver ==
    /\ rx_open' = FALSE
    /\ queue' = <<>>
    /\ UNCHANGED <<tx_open, pushed, sent, end_of_input>>

\* ------------------------------------------------- connect_client (21-27)
\* Mutant: the message leaves the address out.
ConnectErrorNoAddress(env, e) ==
    Err(<<"Failed to connect to gRPC server", "", ": ", e>>)

ConnectError(env, e) ==
    Err(<<"Failed to connect to gRPC server at ", server_url(env), ": ", e>>)

\* connect_client().await succeeded; the command goes on to its RPC call.
ConnectOk ==
    /\ pc = "connect"
    /\ pc' = "rpc"
    /\ connects' = connects + 1
    /\ rpcs' = rpcs + 1
    /\ UNCHANGED <<inputVars, prodVars, chanVars, chatVars, chunk_size,
                   failed, response, result, cfgVars, endpoint>>

\* connect_client().await? failed: the command returns the error and its
\* locals (the request stream holding the Receiver) are dropped.
ConnectFail ==
    /\ pc = "connect"
    /\ cmd # "check_backend_ready"
    /\ \E env \in ServerUrlEnvs, e \in TransportErrors :
         /\ endpoint' = server_url(env)
         /\ result' = ConnectError(env, e)
    /\ pc' = "returned"
    /\ failed' = "connect"
    /\ connects' = connects + 1
    /\ DropReceiver
    /\ UNCHANGED <<inputVars, prodVars, chatVars, chunk_size, rpcs,
                   response, cfgVars>>

\* --------------------------------------------------- upload_video (87-131)
\* Reads the chunk size, creates the channel and spawns the producer, which
\* runs to the head of its loop.
StartUploadVideo ==
    /\ pc = "start"
    /\ cmd = "upload_video"
    /\ \E env \in ChunkSizeEnvs : chunk_size' = video_chunk_size(env)
    /\ tx_open' = TRUE
    /\ rx_open' = TRUE
    /\ producer' = "loop"
    /\ idx' = 0
    /\ offset' = 0
    /\ pc' = "connect"
    /\ UNCHANGED <<inputVars, chunk, read_failed, queue, pushed, sent,
                   end_of_input, chatVars, connects, rpcs, failed, response,
                   result, cfgVars, endpoint>>

\* let end = (offset + chunk_size).min(video_data.len());
\* let slice = &video_data[offset..end];
SliceEnd(data, off, size) == Min(off + size, Len(data))
\* Mutant: the slice starts one byte late (&video_data[offset + 1..end]).
SliceStartsLate(data, off, end) == SubSeq(data, off + 2, end)
Slice(data, off, end) == SubSeq(data, off + 1, end)

\* One pass of `while offset < video_data.len()` up to tx.send(chunk).
ProducerSlice ==
    /\ producer = "loop"
    /\ cmd = "upload_video"
    /\ offset < Len(video_data)
    /\ Len(pushed) < MaxIdx
    /\ LET end == SliceEnd(video_data, offset, chunk_size)
           slice == Slice(video_data, offset, end)
       IN  \E o \in IdxIncrement(idx) :
             /\ offset' = end
             /\ idx' = o.idx
             /\ IF o.panic
                THEN /\ chunk' = <<>>
                     /\ producer' = "panicked"
                     /\ tx_open' = FALSE
                ELSE /\ chunk' = <<VideoChunk(slice, filename, idx)>>
                     /\ producer' = "send"
                     /\ tx_open' = tx_open
    /\ UNCHANGED <<inputVars, read_failed, queue, rx_open, pushed, sent,
                   end_of_input, chatVars, mainVars, cfgVars, endpoint>>

\* Mutant: the loop ends but a clone of the Sender stays alive.
ProducerExitKeepsSender ==
    /\ producer = "loop"
    /\ cmd = "upload_video"
    /\ offset >= Len(video_data)
    /\ producer' = "done"
    /\ UNCHANGED <<inputVars, idx, offset, chunk, read_failed, queue, tx_open,
                   rx_open, pushed, sent, end_of_input, chatVars, mainVars,
                   cfgVars, endpoint>>

\* The loop condition is false: the task ends and its Sender is dropped.
ProducerExit ==
    /\ producer = "loop"
    /\ cmd = "upload_video"
    /\ offset >= Len(video_data)
    /\ producer' = "done"
    /\ tx_open' = FALSE
    /\ UNCHANGED <<inputVars, idx, offset, chunk, read_failed, queue,
                   rx_open, pushed, sent, end_of_input, chatVars, mainVars,
                   cfgVars, endpoint>>

\* Mutant: an unbounded channel, send never waits for a free slot.
SendOkUnbounded ==
    /\ producer = "send"
    /\ rx_open
    /\ queue' = Append(queue, chunk[1])
    /\ pushed' = Append(pushed, chunk[1])
    /\ chunk' = <<>>
    /\ producer' = "loop"
    /\ UNCHANGED <<inputVars, idx, offset, read_failed, tx_open, rx_open,
                   sent, end_of_input, chatVars, mainVars, cfgVars, endpoint>>

\* tx.send(chunk).await returns Ok: the channel is open and has a free slot.
SendOk ==
    /\ producer = "send"
    /\ rx_open
    /\ Len(queue) < QueueCap
    /\ queue' = Append(queue, chunk[1])
    /\ pushed' = Append(pushed, chunk[1])
    /\ chunk' = <<>>
    /\ producer' = "loop"
    /\ UNCHANGED <<inputVars, idx, offset, read_failed, tx_open, rx_open,
                   sent, end_of_input, chatVars, mainVars, cfgVars, endpoint>>

\* Mutant: the send error is ignored and the loop goes on.
SendErrIgnored ==
    /\ producer = "send"
    /\ ~rx_open
    /\ chunk' = <<>>
    /\ producer' = "loop"
    /\ UNCHANGED <<inputVars, idx, offset, read_failed, queue, tx_open,
                   rx_open, pushed, sent, end_of_input, chatVars, mainVars,
                   cfgVars, endpoint>>

\* tx.send(chunk).await returns Err (the Receiver is gone): break.
SendErr ==
    /\ producer = "send"
    /\ ~rx_open
    /\ chunk' = <<>>
    /\ producer' = "done"
    /\ tx_open' = FALSE
    /\ UNCHANGED <<inputVars, idx, offset, read_failed, queue, rx_open,
                   pushed, sent, end_of_input, chatVars, mainVars, cfgVars,
                   endpoint>>

\* The request stream (ReceiverStream polled by the RPC call) takes the
\* next chunk from the channel and writes it to the call.
UploadTake ==
    /\ pc = "rpc"
    /\ IsUpload
    /\ queue # <<>>
    /\ sent' = Append(sent, Head(queue))
    /\ queue' = Tail(queue)
    /\ UNCHANGED <<inputVars, prodVars, tx_open, rx_open, pushed,
                   end_of_input, chatVars, mainVars, cfgVars, endpoint>>

\* The request stream finds the channel closed and empty: end of input.
UploadEndOfInput ==
    /\ pc = "rpc"
    /\ IsUpload
    /\ queue = <<>>
    /\ ~tx_open
    /\ ~end_of_input
    /\ end_of_input' = TRUE
    /\ UNCHANGED <<inputVars, prodVars, queue, tx_open, rx_open, pushed,
                   sent, chatVars, mainVars, cfgVars, endpoint>>

RpcError(e) == Err(<<"gRPC call failed: ", e>>)

\* Mutant: a failed call is reported as a partial result, not an error.
UploadRpcFailAsPartial ==
    /\ pc = "rpc"
    /\ IsUpload
    /\ \E e \in TransportErrors :
         result' = Ok(JsonObject([file_id |-> "", success |-> FALSE,
                                  message |-> e]))
    /\ failed' = "rpc"
    /\ pc' = "returned"
    /\ DropReceiver
    /\ UNCHANGED <<inputVars, prodVars, chatVars, chunk_size, connects,
                   rpcs, response, cfgVars, endpoint>>

\* client.upload_video(..).await is Err (a chunk write or the response
\* failed): map_err and `?` return the error.
UploadRpcFail ==
    /\ pc = "rpc"
    /\ IsUpload
    /\ \E e \in TransportErrors : result' = RpcError(e)
    /\ failed' = "rpc"
    /\ pc' = "returned"
    /\ DropReceiver
    /\ UNCHANGED <<inputVars, prodVars, chatVars, chunk_size, connects,
                   rpcs, response, cfgVars, endpoint>>

\* client.upload_video(..).await is Ok(response): the command returns the
\* response as a JSON value.  The remote side may answer before it has read
\* the whole request stream.
UploadRpcOk ==
    /\ pc = "rpc"
    /\ IsUpload
    /\ \E inner \in UploadResponses :
         /\ response' = <<inner>>
         /\ result' = Ok(JsonObject(inner))
    /\ pc' = "returned"
    /\ DropReceiver
    /\ UNCHANGED <<inputVars, prodVars, chatVars, chunk_size, connects,
                   rpcs, failed, cfgVars, endpoint>>

\* ---------------------------------------- upload_video_from_path (134-195)
OpenError(path, e) == Err(<<"Failed to open file ", path, ": ", e>>)
IoErrors == {"No such file or directory"}

\* The file opens: the producer is spawned and reads from position 0.
StartUploadFromPath ==
    /\ pc = "start"
    /\ cmd = "upload_video_from_path"
    /\ \E env \in ChunkSizeEnvs : chunk_size' = video_chunk_size(env)
    /\ filename' = PathFileName(file_path)
    /\ tx_open' = TRUE
    /\ rx_open' = TRUE
    /\ producer' = "loop"
    /\ idx' = 0
    /\ offset' = 0
    /\ pc' = "connect"
    /\ UNCHANGED <<cmd, file_path, video_data, chunk, read_failed, queue,
                   pushed, sent, end_of_input, chatVars, connects, rpcs,
                   failed, response, result, cfgVars, endpoint>>

\* File::open(..).await? fails: the command returns before any spawn; the
\* channel just created is dropped with the command's locals.
OpenFail ==
    /\ pc = "start"
    /\ cmd = "upload_video_from_path"
    /\ \E env \in ChunkSizeEnvs : chunk_size' = video_chunk_size(env)
    /\ filename' = PathFileName(file_path)
    /\ \E e \in IoErrors : result' = OpenError(file_path, e)
    /\ failed' = "open"
    /\ pc' = "returned"
    /\ UNCHANGED <<cmd, file_path, video_data, prodVars, chanVars, chatVars,
                   connects, rpcs, response, cfgVars, endpoint>>

\* Mutant: buf.truncate(n) is left out, so the chunk carries the whole
\* zero-initialised buffer of chunk_size bytes.
FileReadChunkNoTruncate ==
    /\ producer = "loop"
    /\ cmd = "upload_video_from_path"
    /\ Len(pushed) < MaxIdx
    /\ \E n \in 1..Min(chunk_size, Len(video_data) - offset) :
         \E o \in IdxIncrement(idx) :
           /\ offset' = offset + n
           /\ idx' = o.idx
           /\ IF o.panic
              THEN /\ chunk' = <<>>
                   /\ producer' = "panicked"
                   /\ tx_open' = FALSE
              ELSE /\ chunk' = <<VideoChunk(
                                    SubSeq(video_data, offset + 1, offset + n)
                                      \o [i \in 1..(chunk_size - n) |-> 0],
                                    filename, idx)>>
                   /\ producer' = "send"
                   /\ tx_open' = tx_open
    /\ UNCHANGED <<inputVars, read_failed, queue, rx_open, pushed, sent,
                   end_of_input, chatVars, mainVars, cfgVars, endpoint>>

\* file.read(&mut buf) returns Ok(n), n > 0: between 1 and chunk_size of
\* the bytes left; buf.truncate(n) becomes the chunk's data.
FileReadChunk ==
    /\ producer = "loop"
    /\ cmd = "upload_video_from_path"
    /\ Len(pushed) < MaxIdx
    /\ \E n \in 1..Min(chunk_size, Len(video_data) - offset) :
         \E o \in IdxIncrement(idx) :
           /\ offset' = offset + n
           /\ idx' = o.idx
           /\ IF o.panic
              THEN /\ chunk' = <<>>
                   /\ producer' = "panicked"
                   /\ tx_open' = FALSE
              ELSE /\ chunk' = <<VideoChunk(SubSeq(video_data, offset + 1,
                                                   offset + n), filename, idx)>>
                   /\ producer' = "send"
                   /\ tx_open' = tx_open
    /\ UNCHANGED <<inputVars, read_failed, queue, rx_open, pushed, sent,
                   end_of_input, chatVars, mainVars, cfgVars, endpoint>>

\* file.read returns Ok(0): end of file, or a buffer of chunk_size = 0.
FileReadEof ==
    /\ producer = "loop"
    /\ cmd = "upload_video_from_path"
    /\ Min(chunk_size, Len(video_data) - offset) = 0
    /\ producer' = "done"
    /\ tx_open' = FALSE
    /\ UNCHANGED <<inputVars, idx, offset, chunk, read_failed, queue,
                   rx_open, pushed, sent, end_of_input, chatVars, mainVars,
                   cfgVars, endpoint>>

\* file.read returns Err: the task stops and reports nothing.
FileReadErr ==
    /\ producer = "loop"
    /\ cmd = "upload_video_from_path"
    /\ read_failed' = TRUE
    /\ producer' = "done"
    /\ tx_open' = FALSE
    /\ UNCHANGED <<inputVars, idx, offset, chunk, queue, rx_open, pushed,
                   sent, end_of_input, chatVars, mainVars, cfgVars, endpoint>>

\* ---------------------------------- process_query (222-241), collector
\* chat_response::ResponseType; only Error is named by the code.
ResponseTypeError == "Error"
ResponseTypes == {"Content", ResponseTypeError}

ChatResponse(t, c, a, r) ==
    [type |-> t, content |-> c, agent_name |-> a, result_json |-> r]

\* Messages the remote side may put on the chat stream.
ChatItems ==
    { ChatResponse("Content", "a", "agent", ""),
      ChatResponse("Content", "b", "agent", "{}"),
      ChatResponse(ResponseTypeError, "backend failed", "agent", ""),
      ChatResponse(ResponseTypeError, "backend failed", "system", "") }

StartProcessQuery ==
    /\ pc = "start"
    /\ cmd = "process_query"
    /\ pc' = "connect"
    /\ UNCHANGED <<inputVars, prodVars, chanVars, chatVars, chunk_size,
                   connects, rpcs, failed, response, result, cfgVars,
                   endpoint>>

\* client.send_chat_message(..).await is Err.
ChatRpcFail ==
    /\ pc = "rpc"
    /\ cmd = "process_query"
    /\ \E e \in TransportErrors : result' = RpcError(e)
    /\ failed' = "rpc"
    /\ pc' = "returned"
    /\ UNCHANGED <<inputVars, prodVars, chanVars, chatVars, chunk_size,
                   connects, rpcs, response, cfgVars, endpoint>>

\* client.send_chat_message(..).await is Ok: collect_chat_stream starts
\* with an empty `responses`.
ChatRpcOk ==
    /\ pc = "rpc"
    /\ cmd = "process_query"
    /\ pc' = "collect"
    /\ responses' = <<>>
    /\ UNCHANGED <<inputVars, prodVars, chanVars, delivered, stream_end,
                   chunk_size, connects, rpcs, failed, response, result,
                   cfgVars, endpoint>>

\* Mutant: the synthetic entry is not marked as an error.
SyntheticErrorAsContent(e) ==
    ChatResponse("Content",
                 <<"Stream interrupted: ", e,
                   ". Some partial results may be missing.">>,
                 "system", "")

\* The entry pushed by the Err arm.
SyntheticError(e) ==
    ChatResponse(ResponseTypeError,
                 <<"Stream interrupted: ", e,
                   ". Some partial results may be missing.">>,
                 "system", "")

\* serde_json::to_value(responses).map_err(..)
CollectReturn(resps) == Ok(JsonArray(resps))

\* Mutant: a new message is inserted at the front.
CollectItemAtFront ==
    /\ pc = "collect"
    /\ Len(delivered) < MaxItems
    /\ \E message \in ChatItems :
         /\ responses' = <<message>> \o responses
         /\ delivered' = Append(delivered, message)
    /\ UNCHANGED <<inputVars, prodVars, chanVars, stream_end, mainVars,
                   cfgVars, endpoint>>

\* stream.message().await is Ok(Some(message)).
CollectItem ==
    /\ pc = "collect"
    /\ Len(delivered) < MaxItems
    /\ \E message \in ChatItems :
         /\ responses' = Append(responses, message)
         /\ delivered' = Append(delivered, message)
    /\ UNCHANGED <<inputVars, prodVars, chanVars, stream_end, mainVars,
                   cfgVars, endpoint>>

\* Mutant: Ok(None) is noted but the loop does not break.
CollectEndKeepsReading ==
    /\ pc = "collect"
    /\ stream_end = "open"
    /\ stream_end' = "clean"
    /\ UNCHANGED <<inputVars, prodVars, chanVars, delivered, responses,
                   mainVars, cfgVars, endpoint>>

\* stream.message().await is Ok(None): break and return.
CollectEnd ==
    /\ pc = "collect"
    /\ stream_end' = "clean"
    /\ result' = CollectReturn(responses)
    /\ pc' = "returned"
    /\ UNCHANGED <<inputVars, prodVars, chanVars, delivered, responses,
                   chunk_size, connects, rpcs, failed, response, cfgVars,
                   endpoint>>

\* Mutant: the Err arm breaks without pushing an entry.
CollectErrNoAppend ==
    /\ pc = "collect"
    /\ result' = CollectReturn(responses)
    /\ stream_end' = "error"
    /\ pc' = "returned"
    /\ UNCHANGED <<inputVars, prodVars, chanVars, delivered, responses,
                   chunk_size, connects, rpcs, failed, response, cfgVars,
                   endpoint>>

\* Mutant: the Err arm returns the error to the caller.
CollectErrPropagates ==
    /\ pc = "collect"
    /\ \E e \in TransportErrors : result' = Err(<<"Stream interrupted: ", e>>)
    /\ stream_end' = "error"
    /\ pc' = "returned"
    /\ UNCHANGED <<inputVars, prodVars, chanVars, delivered, responses,
                   chunk_size, connects, rpcs, failed, response, cfgVars,
                   endpoint>>

\* stream.message().await is Err(e): push the synthetic entry, break, return.
CollectErr ==
    /\ pc = "collect"
    /\ \E e \in TransportErrors :
         /\ responses' = Append(responses, SyntheticError(e))
         /\ result' = CollectReturn(responses')
    /\ stream_end' = "error"
    /\ pc' = "returned"
    /\ UNCHANGED <<inputVars, prodVars, chanVars, delivered, chunk_size,
                   connects, rpcs, failed, response, cfgVars, endpoint>>

\* ------------------------------------------- unary commands (197-389)
\* The client method a unary command calls; get_processing_status
\* redirects to get_last_session.
RpcOf(c) == IF c = "get_processing_status" THEN "get_last_session" ELSE c

\* The response message of a unary call.
UnaryResponse(c) == [rpc |-> RpcOf(c)]

\* The request is built and connect_client() is awaited.
StartUnary ==
    /\ pc = "start"
    /\ cmd \in UnaryCommands
    /\ pc' = "connect"
    /\ UNCHANGED <<inputVars, prodVars, chanVars, chatVars, chunk_size,
                   connects, rpcs, failed, response, result, cfgVars, endpoint>>

\* The call is Err: map_err and `?` return the error.
UnaryRpcFail ==
    /\ pc = "rpc"
    /\ cmd \in UnaryCommands
    /\ \E e \in TransportErrors : result' = RpcError(e)
    /\ failed' = "rpc"
    /\ pc' = "returned"
    /\ UNCHANGED <<inputVars, prodVars, chanVars, chatVars, chunk_size,
                   connects, rpcs, response, cfgVars, endpoint>>

\* The call is Ok(response): the response is returned as a JSON value.
UnaryRpcOk ==
    /\ pc = "rpc"
    /\ cmd \in UnaryCommands
    /\ response' = <<UnaryResponse(cmd)>>
    /\ result' = Ok(JsonObject(UnaryResponse(cmd)))
    /\ pc' = "returned"
    /\ UNCHANGED <<inputVars, prodVars, chanVars, chatVars, chunk_size,
                   connects, rpcs, failed, cfgVars, endpoint>>

\* ------------------------------------------- check_backend_ready (356-371)
StartCheckBackendReady ==
    /\ pc = "start"
    /\ cmd = "check_backend_ready"
    /\ pc' = "connect"
    /\ UNCHANGED <<inputVars, prodVars, chanVars, chatVars, chunk_size,
                   connects, rpcs, failed, response, result, cfgVars, endpoint>>

\* connect_client() is Err(e): Ok({"ready": false, "message": e}).
ReadyConnectFail ==
    /\ pc = "connect"
    /\ cmd = "check_backend_ready"
    /\ \E env \in ServerUrlEnvs, e \in TransportErrors :
         /\ endpoint' = server_url(env)
         /\ result' = Ok(JsonObject([ready |-> FALSE,
                                     message |-> ConnectError(env, e).msg]))
    /\ failed' = "connect"
    /\ connects' = connects + 1
    /\ pc' = "returned"
    /\ UNCHANGED <<inputVars, prodVars, chanVars, chatVars, chunk_size, rpcs,
                   response, cfgVars>>

\* The ping returns Ok within the timeout: Ok({"ready": true}).
ReadyPingOk ==
    /\ pc = "rpc"
    /\ cmd = "check_backend_ready"
    /\ response' = <<[rpc |-> "get_last_session"]>>
    /\ result' = Ok(JsonObject([ready |-> TRUE]))
    /\ pc' = "returned"
    /\ UNCHANGED <<inputVars, prodVars, chanVars, chatVars, chunk_size,
                   connects, rpcs, failed, cfgVars, endpoint>>

\* The ping returns Err(e) within the timeout:
\* Ok({"ready": false, "message": e.to_string()}).
ReadyPingErr ==
    /\ pc = "rpc"
    /\ cmd = "check_backend_ready"
    /\ \E e \in TransportErrors :
         result' = Ok(JsonObject([ready |-> FALSE, message |-> <<e>>]))
    /\ failed' = "rpc"
    /\ pc' = "returned"
    /\ UNCHANGED <<inputVars, prodVars, chanVars, chatVars, chunk_size,
                   connects, rpcs, response, cfgVars, endpoint>>

\* Mutant: the timeout is returned as an error value.
ReadyTimeoutAsErr ==
    /\ pc = "rpc"
    /\ cmd = "check_backend_ready"
    /\ result' = Err(<<"timeout">>)
    /\ failed' = "timeout"
    /\ pc' = "returned"
    /\ UNCHANGED <<inputVars, prodVars, chanVars, chatVars, chunk_size,
                   connects, rpcs, response, cfgVars, endpoint>>

\* The 3-second timeout elapses first:
\* Ok({"ready": false, "message": "timeout"}).
ReadyTimeout ==
    /\ pc = "rpc"
    /\ cmd = "check_backend_ready"
    /\ result' = Ok(JsonObject([ready |-> FALSE, message |-> <<"timeout">>]))
    /\ failed' = "timeout"
    /\ pc' = "returned"
    /\ UNCHANGED <<inputVars, prodVars, chanVars, chatVars, chunk_size,
                   connects, rpcs, response, cfgVars, endpoint>>

Next ==
    \/ StartUploadVideo
    \/ ProducerSlice
    \/ ProducerExit
    \/ SendOk
    \/ SendErr
    \/ ConnectOk
    \/ ConnectFail
    \/ UploadTake
    \/ UploadEndOfInput
    \/ UploadRpcFail
    \/ UploadRpcOk
    \/ StartUploadFromPath
    \/ OpenFail
    \/ FileReadChunk
    \/ FileReadEof
    \/ FileReadErr
    \/ StartProcessQuery
    \/ ChatRpcFail
    \/ ChatRpcOk
    \/ CollectItem
    \/ CollectEnd
    \/ CollectErr
    \/ StartUnary
    \/ UnaryRpcFail
    \/ UnaryRpcOk
    \/ StartCheckBackendReady
    \/ ReadyConnectFail
    \/ ReadyPingOk
    \/ ReadyPingErr
    \/ ReadyTimeout

Spec == Init /\ [][Next]_vars

\* --------------------------------------------- uploads under fair scheduling
\* Longest of the short payloads tried.
LiveShort == 2

\* A step of the spawned producer task.
ProducerStep ==
    \/ ProducerSlice
    \/ ProducerExit
    \/ SendOk
    \/ SendErr
    \/ FileReadChunk
    \/ FileReadEof
    \/ FileReadErr

\* A step of the request stream polled by the call in flight.
ConsumerStep ==
    \/ UploadTake
    \/ UploadEndOfInput

\* An empty payload, short ones, and one of more one-byte chunks than the
\* channel holds, so that the producer has to wait for the consumer.
LiveLens == (0..LiveShort) \cup {QueueCap + 2}

InitLive == Init /\ IsUpload /\ Len(video_data) \in LiveLens

\* Uploads whose file opens, whose connection is made and whose call does
\* not fail; the remote side may still answer before the stream's end.
NextLive ==
    \/ StartUploadVideo
    \/ StartUploadFromPath
    \/ ConnectOk
    \/ ProducerStep
    \/ ConsumerStep
    \/ UploadRpcOk

\* The runtime keeps running a spawned task that can make progress, the
\* call in flight keeps polling its request stream, and the connection
\* attempt completes.
SpecLive ==
    /\ InitLive
    /\ [][NextLive]_vars
    /\ WF_vars(ProducerStep)
    /\ WF_vars(ConsumerStep)
    /\ WF_vars(ConnectOk)

\* ------------------------------------- uploads of 2^31 chunks and more
\* How many chunks before the one numbered i32::MAX the window starts.
WideBack == 2
\* Longest remainder of the payload still to be produced.
WideLen == 5

\* An upload in progress: the call is in flight, the producer is at the
\* head of its loop about to make chunk number idx, every earlier chunk has
\* been pushed and taken.  video_data is the part of the payload not yet
\* sliced or read, offset counts from its start, and pushed and sent record
\* the chunks from here on.
InitWide ==
    /\ cmd \in {"upload_video", "upload_video_from_path"}
    /\ \/ /\ cmd = "upload_video"
          /\ filename \in FileNames
          /\ file_path = <<>>
       \/ /\ cmd = "upload_video_from_path"
          /\ file_path \in FilePaths
          /\ filename = PathFileName(file_path)
    /\ video_data \in {p \in Payloads : Len(p) <= WideLen}
    /\ chunk_size \in {video_chunk_size(env) : env \in ChunkSizeEnvs} \ {0}
    /\ idx \in {I32Max - k : k \in 0..WideBack}
    /\ pc = "rpc"
    /\ producer = "loop"
    /\ offset = 0
    /\ chunk = <<>>
    /\ queue = <<>>
    /\ tx_open = TRUE
    /\ rx_open = TRUE
    /\ pushed = <<>>
    /\ sent = <<>>
    /\ end_of_input = FALSE
    /\ read_failed = FALSE
    /\ delivered = <<>>
    /\ stream_end = "open"
    /\ responses = <<>>
    /\ connects = 1
    /\ rpcs = 1
    /\ failed = ""
    /\ response = <<>>
    /\ endpoint = ""
    /\ cfg_in = [VIDEO_CHUNK_SIZE |-> Unset, GRPC_SERVER_URL |-> Unset]
    /\ cfg_out = <<>>
    /\ result = NoResult

NextWide ==
    \/ ProducerSlice
    \/ ProducerExit
    \/ SendOk
    \/ SendErr
    \/ UploadTake
    \/ UploadEndOfInput
    \/ UploadRpcFail
    \/ UploadRpcOk
    \/ FileReadChunk
    \/ FileReadEof
    \/ FileReadErr

SpecWide == InitWide /\ [][NextWide]_vars

\* ------------------------------------------------ GrpcConfig checked alone
\* Longest value of VIDEO_CHUNK_SIZE tried.
MaxEnvLen == 2

EnvChars == {DigitChar(d) : d \in 0..MaxChunk} \cup {"+", "-", "x"}

RECURSIVE EnvStrings(_)
EnvStrings(n) ==
    IF n = 0 THEN {<<>>}
    ELSE LET shorter == EnvStrings(n - 1)
         IN  shorter \cup {Append(s, c) : s \in shorter, c \in EnvChars}

ConfigChunkEnvs == {Unset} \cup {Set(s) : s \in EnvStrings(MaxEnvLen)}
ConfigUrlEnvs == ServerUrlEnvs \cup {Set("")}

\* No command runs; the environment is any of the values above.
InitConfig ==
    /\ cfg_in \in [VIDEO_CHUNK_SIZE : ConfigChunkEnvs,
                    GRPC_SERVER_URL : ConfigUrlEnvs]
    /\ cfg_out = [video_chunk_size |-> <<>>, server_url |-> <<>>]
    /\ cmd = ""
    /\ filename = ""
    /\ file_path = <<>>
    /\ video_data = <<>>
    /\ chunk_size = 0
    /\ pc = "idle"
    /\ producer = "unspawned"
    /\ idx = 0
    /\ offset = 0
    /\ chunk = <<>>
    /\ queue = <<>>
    /\ tx_open = FALSE
    /\ rx_open = FALSE
    /\ pushed = <<>>
    /\ sent = <<>>
    /\ end_of_input = FALSE
    /\ read_failed = FALSE
    /\ delivered = <<>>
    /\ stream_end = "open"
    /\ responses = <<>>
    /\ connects = 0
    /\ rpcs = 0
    /\ failed = ""
    /\ response = <<>>
    /\ endpoint = ""
    /\ result = NoResult

\* GrpcConfig::video_chunk_size() is called.
CallVideoChunkSize ==
    /\ cfg_out.video_chunk_size = <<>>
    /\ cfg_out' = [cfg_out EXCEPT !.video_chunk_size =
                       <<video_chunk_size(cfg_in.VIDEO_CHUNK_SIZE)>>]
    /\ UNCHANGED <<inputVars, prodVars, chanVars, chatVars, mainVars,
                   endpoint, cfg_in>>

\* GrpcConfig::server_url() is called.
CallServerUrl ==
    /\ cfg_out.server_url = <<>>
    /\ cfg_out' = [cfg_out EXCEPT !.server_url =
                       <<server_url(cfg_in.GRPC_SERVER_URL)>>]
    /\ UNCHANGED <<inputVars, prodVars, chanVars, chatVars, mainVars,
                   endpoint, cfg_in>>

NextConfig ==
    \/ CallVideoChunkSize
    \/ CallServerUrl

SpecConfig == InitConfig /\ [][NextConfig]_vars

\* ================================================================ claims
RECURSIVE ConcatData(_)
ConcatData(chunks) ==
    IF chunks = <<>> THEN <<>>
    ELSE Head(chunks).data \o ConcatData(Tail(chunks))

\* Position of the first chunk with the least chunk_index.
LeastAt(chunks) ==
    CHOOSE i \in 1..Len(chunks) :
        /\ \A j \in 1..Len(chunks) : chunks[i].chunk_index <= chunks[j].chunk_index
        /\ \A j \in 1..(i - 1) : chunks[j].chunk_index # chunks[i].chunk_index

RECURSIVE SortByIndex(_)
SortByIndex(chunks) ==
    IF chunks = <<>> THEN <<>>
    ELSE LET i == LeastAt(chunks)
         IN  <<chunks[i]>> \o SortByIndex(SubSeq(chunks, 1, i - 1)
                                           \o SubSeq(chunks, i + 1, Len(chunks)))

CeilDiv(n, d) == (n + d - 1) \div d

IsPrefix(a, b) == Len(a) <= Len(b) /\ a = SubSeq(b, 1, Len(a))

\* Chunks created by the producer and not yet taken by the consumer.
Outstanding == Len(queue) + Len(chunk)

\* C1: in upload_video with chunk size S > 0, once the consumer has drained
\* the queue to its end, the pushed chunks concatenated in increasing
\* chunk_index order equal video_data, and there are ceil(N/S) of them
\* (none for an empty payload).
C1_ChunkCoverage ==
    (cmd = "upload_video" /\ chunk_size > 0 /\ end_of_input) =>
        /\ sent = pushed
        /\ ConcatData(SortByIndex(pushed)) = video_data
        /\ Len(pushed) = CeilDiv(Len(video_data), chunk_size)

\* C1 witness: a drained upload whose last chunk is a short one.
C1_Witness ==
    /\ cmd = "upload_video"
    /\ end_of_input
    /\ chunk_size = 3
    /\ Len(video_data) = 10
    /\ Len(pushed) = 4
    /\ Len(pushed[4].data) = 1

\* C2: in both upload commands, the k-th chunk the consumer takes has
\* chunk_index = k - 1 (counting k from 1), and the chunks handed to the
\* request stream are, in order, the first chunks the producer pushed.
C2_Ordering ==
    IsUpload =>
        /\ \A k \in 1..Len(sent) : sent[k].chunk_index = k - 1
        /\ IsPrefix(sent, pushed)

\* C2 witness: file mode, the consumer has taken chunks while the producer
\* is suspended in send with more chunks queued behind.
C2_Witness ==
    /\ cmd = "upload_video_from_path"
    /\ Len(sent) >= 3
    /\ queue # <<>>
    /\ producer = "send"

\* C3 as stated: produced-but-not-consumed chunks never exceed the queue
\* capacity (taken for the positive chunk sizes the specification allows).
C3_BoundedByCapacity == chunk_size > 0 => Outstanding <= QueueCap

\* C3 amended: the queue never holds more than QueueCap chunks, and the
\* producer holds at most one more while its send waits, so at most
\* QueueCap + 1 chunks exist unconsumed.
C3_BoundedMemory ==
    /\ Len(queue) <= QueueCap
    /\ Len(chunk) <= 1
    /\ Outstanding <= QueueCap + 1

\* C3 witness: a full queue and the producer suspended in send.
C3_Witness ==
    /\ Len(queue) = QueueCap
    /\ producer = "send"
    /\ Outstanding = QueueCap + 1

\* ---- collect_chat_stream
\* collect_chat_stream has returned.
CollectorReturned == pc = "returned" /\ stream_end # "open"

\* The elements of the returned JSON array, as the structs they encode.
ReturnedItems ==
    [i \in 1..Len(result.value.items) |-> result.value.items[i].members]

LastIsError ==
    /\ ReturnedItems # <<>>
    /\ ReturnedItems[Len(ReturnedItems)].type = ResponseTypeError

\* C4: after items and a clean end of stream, the collector returns
\* exactly the delivered items in arrival order, nothing appended.
C4_CollectorCompleteness ==
    (CollectorReturned /\ stream_end = "clean") =>
        /\ result.tag = "Ok"
        /\ result.value.json = "array"
        /\ ReturnedItems = delivered

\* C4 witness: three different items, then a clean end.
C4_Witness ==
    /\ CollectorReturned
    /\ stream_end = "clean"
    /\ Len(delivered) = 3
    /\ delivered[1] # delivered[2]
    /\ delivered[2] # delivered[3]

\* C5: after items and a transport error, the collector returns the
\* delivered items in arrival order followed by exactly one synthetic entry,
\* of kind Error and source label "system", as the last element.
C5_CollectorDegradation ==
    (CollectorReturned /\ stream_end = "error") =>
        /\ result.tag = "Ok"
        /\ Len(ReturnedItems) = Len(delivered) + 1
        /\ SubSeq(ReturnedItems, 1, Len(delivered)) = delivered
        /\ ReturnedItems[Len(ReturnedItems)].type = ResponseTypeError
        /\ ReturnedItems[Len(ReturnedItems)].agent_name = "system"
        /\ ReturnedItems[Len(ReturnedItems)].content[1] = "Stream interrupted: "

\* C5 witness: two items, then a transport error.
C5_Witness ==
    /\ CollectorReturned
    /\ stream_end = "error"
    /\ Len(delivered) = 2

\* C6 as stated: the last returned element has kind Error if and only if
\* the stream was ended by a transport error.
C6_LastErrorIffInterrupted ==
    CollectorReturned => (LastIsError <=> stream_end = "error")

\* C6 amended: a stream ended by a transport error always returns a last
\* element of kind Error, so a sequence that is empty or ends in another
\* kind was completed normally; a last element of kind Error after a clean
\* end is the remote side's own last item.
C6_LastErrorAfterInterrupt ==
    CollectorReturned =>
        /\ stream_end = "error" => LastIsError
        /\ ~LastIsError => stream_end = "clean"
        /\ (LastIsError /\ stream_end = "clean") =>
               /\ delivered # <<>>
               /\ ReturnedItems[Len(ReturnedItems)] = delivered[Len(delivered)]

\* C6 witness: a clean end after the remote side sent an Error item last.
C6_Witness ==
    /\ CollectorReturned
    /\ stream_end = "clean"
    /\ LastIsError

\* C7: whatever the stream does, collect_chat_stream returns a success
\* value carrying the sequence; a transport error is an entry of it.
C7_CollectNeverFails ==
    CollectorReturned =>
        /\ result.tag = "Ok"
        /\ result.value.json = "array"
        /\ stream_end = "error" => Len(result.value.items) > Len(delivered)

\* C7 witness: a transport error on the very first read.
C7_Witness ==
    /\ CollectorReturned
    /\ stream_end = "error"
    /\ delivered = <<>>
    /\ result.tag = "Ok"

\* ---- uploads: failure handling
\* C8: an upload command returns either one error or one UploadResult; any
\* failed step (open, connect, chunk write or response) gives the error,
\* and an UploadResult is the aggregate response the RPC call delivered.
C8_AllOrNothing ==
    (IsUpload /\ pc = "returned") =>
        /\ result.tag \in {"Ok", "Err"}
        /\ failed # "" => (result.tag = "Err" /\ response = <<>>)
        /\ result.tag = "Ok" =>
               /\ failed = ""
               /\ response # <<>>
               /\ result.value.members = response[1]

\* C8 witness: the call fails after the consumer has written chunks.
C8_Witness ==
    /\ IsUpload
    /\ pc = "returned"
    /\ failed = "rpc"
    /\ Len(sent) >= 2
    /\ result.tag = "Err"

\* The consumer has given up the queue while a producer exists.
Abandoned == IsUpload /\ pc = "returned" /\ producer # "unspawned"

\* C9: once the consumer has abandoned the queue, no chunk is pushed any
\* more, a pending send ends the producer, a stopped producer stays
\* stopped, and the command's return value (the consumer's error when it
\* failed) is never changed by the producer.
C9_CooperativeShutdown ==
    [][Abandoned =>
         /\ pushed' = pushed
         /\ result' = result
         /\ producer = "send" => producer' \in {"send", "done"}
         /\ producer = "done" => producer' = "done"
         /\ failed \in {"connect", "rpc"} =>
                /\ result.tag = "Err"
                /\ result.msg[1] \in {"Failed to connect to gRPC server at ",
                                      "gRPC call failed: "}]_vars

\* C9 witness: after a failed connect the producer, with payload left,
\* has created a chunk, failed to push it and stopped.
C9_Witness ==
    /\ cmd = "upload_video"
    /\ pc = "returned"
    /\ failed = "connect"
    /\ producer = "done"
    /\ idx > Len(pushed)
    /\ offset < Len(video_data)
    /\ result.tag = "Err"

\* C10 as stated: when an upload command has returned, its producer task
\* has already terminated.
C10_NoTaskOutlivesCommand ==
    (IsUpload /\ pc = "returned") => producer \in {"unspawned", "done"}

\* ---- failures and their visibility
\* A failure has occurred during the command: a failed open, connect or
\* RPC call, a chat stream read error, or a file read error in an upload
\* whose request stream then ran to its end.
FailureOccurred ==
    \/ failed # ""
    \/ stream_end = "error"
    \/ read_failed /\ end_of_input

\* The caller can see a failure: an error value, an Error entry last in
\* the returned sequence, a readiness report that says not ready, or an
\* upload response whose success flag is false.
FailureVisible ==
    \/ result.tag = "Err"
    \/ CollectorReturned /\ LastIsError
    \/ /\ cmd = "check_backend_ready"
       /\ result.tag = "Ok"
       /\ ~result.value.members.ready
    \/ /\ IsUpload
       /\ result.tag = "Ok"
       /\ ~result.value.members.success

\* C11 as stated: every failure other than the producer's push failure
\* after abandonment gives the caller an error value or an embedded Error
\* entry, never a result that looks like success.
C11_NoSilentFailure ==
    (pc = "returned" /\ FailureOccurred) => FailureVisible

\* ---- connections
\* The message a failed connection attempt left in the return value.
ConnectFailureMessage ==
    IF cmd = "check_backend_ready" THEN result.value.members.message
    ELSE result.msg

\* C12: a command makes at most one connection attempt and at most one RPC
\* call; after a failed attempt it has returned, no RPC call was made, the
\* returned message holds the address that was tried, and the return value
\* is an error (for check_backend_ready, ready = false with that message).
C12_OneConnectionNoRetry ==
    /\ connects <= 1
    /\ rpcs <= 1
    /\ rpcs <= connects
    /\ failed = "connect" =>
           /\ pc = "returned"
           /\ connects = 1
           /\ rpcs = 0
           /\ endpoint \in {"http://127.0.0.1:50051",
                            "http://backend-server:50051"}
           /\ ConnectFailureMessage[2] = endpoint
           /\ cmd # "check_backend_ready" => result.tag = "Err"

\* C12 witness: process_query fails to connect to the configured address.
C12_Witness ==
    /\ cmd = "process_query"
    /\ failed = "connect"
    /\ endpoint = "http://backend-server:50051"
    /\ result.tag = "Err"
    /\ rpcs = 0

\* ---- configuration
\* C13 as stated: whatever VIDEO_CHUNK_SIZE holds, video_chunk_size returns
\* a value greater than 0.
C13_ChunkSizePositive ==
    \A i \in 1..Len(cfg_out.video_chunk_size) :
        cfg_out.video_chunk_size[i] > 0

\* C14: server_url returns "http://127.0.0.1:50051" when GRPC_SERVER_URL is
\* not set and the variable's value when it is; video_chunk_size returns
\* 512 * 1024 when VIDEO_CHUNK_SIZE is not set or does not parse as an
\* unsigned integer, and the parsed value when it does.
C14_ConfigDefaults ==
    /\ \A i \in 1..Len(cfg_out.server_url) :
         cfg_out.server_url[i] =
            IF cfg_in.GRPC_SERVER_URL.set THEN cfg_in.GRPC_SERVER_URL.value
            ELSE "http://127.0.0.1:50051"
    /\ \A i \in 1..Len(cfg_out.video_chunk_size) :
         LET env == cfg_in.VIDEO_CHUNK_SIZE
             out == cfg_out.video_chunk_size[i]
         IN  IF env.set /\ ParseUsize(env.value) # {}
             THEN out \in ParseUsize(env.value)
             ELSE out = 524288

\* C14 witness: both variables set, the chunk size written "+2".
C14_Witness ==
    /\ cfg_in.VIDEO_CHUNK_SIZE = Set(<<"+", "2">>)
    /\ cfg_in.GRPC_SERVER_URL = Set("http://backend-server:50051")
    /\ cfg_out.video_chunk_size = <<2>>
    /\ cfg_out.server_url = <<"http://backend-server:50051">>

\* ---- file-mode production
\* C16: in upload_video_from_path, every chunk the producer makes carries
\* exactly the bytes of one non-empty read (1..S bytes, never empty), the
\* chunks made so far concatenate to the bytes read so far, and when the
\* producer has ended on the zero-length read without a read error or a
\* refused push, the pushed payloads concatenate to the file content and
\* the zero-length read has added no chunk.
C16_FileModeProduction ==
    cmd = "upload_video_from_path" =>
        /\ \A i \in 1..Len(pushed \o chunk) :
             /\ Len((pushed \o chunk)[i].data) >= 1
             /\ Len((pushed \o chunk)[i].data) <= chunk_size
        /\ (producer \in {"loop", "send"} \/ idx = Len(pushed)) =>
             ConcatData(pushed \o chunk) = SubSeq(video_data, 1, offset)
        /\ (producer = "done" /\ ~read_failed /\ idx = Len(pushed)
              /\ chunk_size > 0) =>
             /\ offset = Len(video_data)
             /\ ConcatData(pushed) = video_data

\* C16 witness: a file read to its end in three reads, the first of them
\* shorter than the buffer.
C16_Witness ==
    /\ cmd = "upload_video_from_path"
    /\ producer = "done"
    /\ ~read_failed
    /\ chunk_size = 3
    /\ Len(pushed) = 3
    /\ idx = 3
    /\ Len(pushed[1].data) = 1
    /\ Len(pushed[2].data) = 3
    /\ ConcatData(pushed) = video_data

\* ---- collector state machine
\* Reading: the collector is in its loop.  Done / Failed: it has left the
\* loop on a clean end / on a transport error.
Reading == pc = "collect" /\ stream_end = "open"
Done == stream_end = "clean"
Failed == stream_end = "error"

\* C17: the collector starts Reading with an empty sequence; an item keeps
\* it Reading and is appended at the end; a clean end moves it to Done and
\* returns the sequence as it is; a transport error moves it to Failed and
\* returns the sequence with one synthetic Error entry appended; Done and
\* Failed are terminal (no further read, nothing appended, the returned
\* value does not change); while Reading every step leaves the old sequence
\* a prefix of the new one.
C17_CollectorStateMachine ==
    [][ /\ (pc # "collect" /\ pc' = "collect") =>
              (Reading' /\ responses' = <<>>)
        /\ pc = "collect" => Reading
        /\ (Reading /\ Reading') =>
              /\ Len(delivered') = Len(delivered) + 1
              /\ responses' = Append(responses, delivered'[Len(delivered')])
        /\ Reading => IsPrefix(responses, responses')
        /\ (Reading /\ ~Reading') =>
              /\ pc' = "returned"
              /\ Done' \/ Failed'
              /\ delivered' = delivered
              /\ result'.tag = "Ok"
              /\ ReturnedItems' = responses'
              /\ Done' => responses' = responses
              /\ Failed' =>
                    /\ Len(responses') = Len(responses) + 1
                    /\ responses'[Len(responses')].type = ResponseTypeError
                    /\ responses'[Len(responses')].agent_name = "system"
        /\ (Done \/ Failed) =>
              UNCHANGED <<pc, stream_end, responses, delivered, result>>
      ]_vars

\* C17 witness: Failed after three items, four entries returned.
C17_Witness ==
    /\ pc = "returned"
    /\ Failed
    /\ Len(delivered) = 3
    /\ Len(responses) = 4
    /\ Len(ReturnedItems) = 4

\* ---- check_backend_ready
\* The connection attempt succeeded and the ping came back Ok in time.
PingSucceeded ==
    /\ connects = 1
    /\ rpcs = 1
    /\ failed = ""
    /\ response = <<[rpc |-> "get_last_session"]>>

\* C20: check_backend_ready always returns Ok with a JSON object holding a
\* boolean "ready"; ready is true exactly when the connection succeeded and
\* the ping returned Ok before the timeout, and a report with ready = false
\* carries a message.
C20_ReadyNeverErr ==
    (cmd = "check_backend_ready" /\ pc = "returned") =>
        /\ result.tag = "Ok"
        /\ result.value.json = "object"
        /\ result.value.members.ready \in BOOLEAN
        /\ result.value.members.ready <=> PingSucceeded
        /\ failed \in {"", "connect", "rpc", "timeout"}
        /\ ~result.value.members.ready =>
              /\ "message" \in DOMAIN result.value.members
              /\ result.value.members.message # <<>>
        /\ result.value.members.ready =>
              DOMAIN result.value.members = {"ready"}

\* C20 witness: the ping timed out after a successful connection.
C20_Witness ==
    /\ cmd = "check_backend_ready"
    /\ pc = "returned"
    /\ connects = 1
    /\ failed = "timeout"
    /\ result = Ok(JsonObject([ready |-> FALSE, message |-> <<"timeout">>]))

\* ---- eager and streaming chunking
\* C19: in upload_video with chunk size S > 0, what the producer loop has
\* pushed is at every moment a prefix of build_video_chunks(filename,
\* video_data), equal in data, filename and chunk_index element by element,
\* and once the loop has run to its end without a refused push it is the
\* whole list.
C19_EagerEqualsStreaming ==
    (cmd = "upload_video" /\ chunk_size > 0) =>
        LET eager == build_video_chunks(filename, video_data, chunk_size)
        IN  /\ ~eager.panic
            /\ IsPrefix(pushed \o chunk, eager.chunks)
            /\ (producer = "done" /\ idx = Len(pushed)) =>
                  pushed = eager.chunks

\* C19 witness: a completed producer loop whose four chunks, the last a
\* short one, are the eager list.
C19_Witness ==
    /\ cmd = "upload_video"
    /\ producer = "done"
    /\ chunk_size = 3
    /\ idx = 4
    /\ pushed = build_video_chunks(filename, video_data, 3).chunks
    /\ Len(pushed) = 4
    /\ Len(pushed[4].data) = 1

\* ---- sequence-index arithmetic
\* C18 as stated: the i32 increment never overflows or wraps, so every
\* chunk made has chunk_index >= 0 and an index greater than that of the
\* chunk made before it.
C18_IndexNeverOverflows ==
    (IsUpload /\ chunk_size > 0) =>
        /\ producer # "panicked"
        /\ idx >= 0
        /\ \A i \in 1..Len(pushed \o chunk) :
             /\ (pushed \o chunk)[i].chunk_index >= 0
             /\ i > 1 => (pushed \o chunk)[i].chunk_index
                            > (pushed \o chunk)[i - 1].chunk_index

\* ---- queue closure and consumer liveness
\* The consumer has stopped draining: the Receiver was dropped.
ConsumerGone == ~rx_open

\* C15: in an upload with chunk size S > 0 whose consumer keeps draining,
\* the producer eventually finishes and the consumer eventually observes
\* end of input; end of input is observed only when the queue is closed and
\* empty and every pushed chunk has been taken; the queue is closed only by
\* the finished producer and never reopens; and a consumer waiting on an
\* empty queue whose producer has finished does not wait forever.
C15_ClosureAndLiveness ==
    /\ [](end_of_input =>
            /\ producer = "done"
            /\ ~tx_open
            /\ queue = <<>>
            /\ chunk = <<>>
            /\ sent = pushed)
    /\ [][ /\ (tx_open /\ ~tx_open') => (producer' = "done" /\ chunk' = <<>>)
           /\ (producer # "unspawned" /\ ~tx_open) => ~tx_open'
           /\ end_of_input => end_of_input' ]_vars
    /\ (producer # "unspawned" /\ chunk_size > 0)
          ~> (ConsumerGone \/ (producer = "done" /\ end_of_input))
    /\ (producer = "done" /\ queue = <<>> /\ pc = "rpc")
          ~> (ConsumerGone \/ end_of_input)

\* C15 witness: ten one-byte chunks, more than the queue holds, all taken
\* and end of input observed while the call is still in flight.
C15_Witness ==
    /\ cmd = "upload_video"
    /\ chunk_size = 1
    /\ pc = "rpc"
    /\ end_of_input
    /\ Len(sent) = 10
    /\ producer = "done"

====
